---- MODULE Spec2Model ----
(***************************************************************************)
(* PromptManager of openhands/utils/prompt.py: the microagent registries,  *)
(* the repository/runtime info records and the in-place edits of message   *)
(* content lists (enhance_message, add_examples_to_initial_message,        *)
(* add_info_to_initial_message, add_turns_left_reminder).                  *)
(*                                                                         *)
(* A text is a sequence of tokens (words); a content block is a text block *)
(* or an image block; a message is a role and a content list; a Python     *)
(* dict is the sequence of its values in insertion order, keyed by name.   *)
(***************************************************************************)
EXTENDS Integers, Sequences, FiniteSets, TLC

\* ------------------------------------------------------------------ bounds
\* Calls made on one manager.
MaxSteps == 3

\* ------------------------------------------------------- microagent entities
\* BaseMicroAgent instances: id is the object identity, kind the class.
K1 == [id |-> "K1", name |-> "a", kind |-> "knowledge", triggers |-> <<"x">>, content |-> <<"ka">>]
K2 == [id |-> "K2", name |-> "b", kind |-> "knowledge", triggers |-> <<"y", "x">>, content |-> <<"kb">>]
K3 == [id |-> "K3", name |-> "a", kind |-> "knowledge", triggers |-> <<"y">>, content |-> <<"ka2">>]
R1 == [id |-> "R1", name |-> "a", kind |-> "repo", triggers |-> <<>>, content |-> <<"ra">>]
R2 == [id |-> "R2", name |-> "s", kind |-> "repo", triggers |-> <<>>, content |-> <<"rs">>]
T1 == [id |-> "T1", name |-> "t", kind |-> "task", triggers |-> <<>>, content |-> <<"tt">>]

Microagents == {K1, K2, K3, R1, R2, T1}

\* The lists load_microagents is given: none, each microagent alone, and
\* lists that repeat a name, hold two repo microagents or mix the kinds.
MicroagentLists ==
  {<<>>} \cup {<<m>> : m \in Microagents}
         \cup {<<K1, K3>>, <<R1, R2>>, <<T1, K2, R2>>}

\* What load_microagents_from_dir returns for the directories tried: the repo
\* and the knowledge dict, each in its own order; NoDir is microagent_dir=None.
NoDir == [given |-> FALSE, repo |-> <<>>, knowledge |-> <<>>]
PublicDir == [given |-> TRUE, repo |-> <<R2>>, knowledge |-> <<K2, K1>>]
MicroagentDirs == {NoDir, PublicDir}

\* The disable-lists tried at construction.
DisableLists == {{}, {"b", "s"}}

\* ------------------------------------------------------------------ content
TextContent(t) == [type |-> "text", text |-> t]
ImageContent == [type |-> "image", image_urls |-> <<"url">>]
Message(r, c) == [role |-> r, content |-> c]

isTextContent(c) == c.type = "text"

\* The conversations tried: a user message after an assistant message after
\* a user message; user messages without any text block; a user message with
\* two text blocks followed by an assistant message; a user message with text
\* followed by one whose only text block is the empty string.
MessageLists ==
  { <<Message("user", <<TextContent(<<"x">>)>>),
      Message("assistant", <<TextContent(<<"x">>)>>),
      Message("user", <<TextContent(<<"Y">>), ImageContent>>)>>,
    <<Message("user", <<ImageContent>>),
      Message("user", <<>>)>>,
    <<Message("user", <<TextContent(<<"x">>), TextContent(<<"z">>)>>),
      Message("assistant", <<TextContent(<<"x">>)>>)>>,
    <<Message("user", <<TextContent(<<"z">>)>>),
      Message("user", <<TextContent(<<>>), ImageContent>>)>> }

\* The State objects handed to add_turns_left_reminder.
States == {[max_iterations |-> 10, iteration |-> 3],
           [max_iterations |-> 2, iteration |-> 2]}

\* ---------------------------------------------------------------- templates
\* The prompt directories tried: each template file is the stock one or blank.
TemplateFiles == {"stock", "blank"}
PromptDirs ==
  [user_prompt : TemplateFiles, additional_info : TemplateFiles,
   microagent_info : TemplateFiles]

VARIABLES
  disabled_microagents,   \* self.disabled_microagents
  templates,              \* the templates loaded from prompt_dir
  knowledge_microagents,  \* self.knowledge_microagents, in insertion order
  repo_microagents,       \* self.repo_microagents, in insertion order
  repository_info,        \* self.repository_info
  runtime_info,           \* self.runtime_info
  messages,               \* the conversation's messages
  steps,                  \* calls made so far
  original,               \* the messages as first given
  rendered,               \* per message: the texts rendered for it, in call order
  last                    \* the last call: its name, arguments, outcome, pre-state

vars == <<disabled_microagents, templates, knowledge_microagents, repo_microagents,
          repository_info, runtime_info, messages, steps, original, rendered, last>>


\* ------------------------------------------------------------------ helpers
Min(S) == CHOOSE x \in S : \A y \in S : x <= y
Max(S) == CHOOSE x \in S : \A y \in S : x >= y

\* reversed(seq)
Reverse(s) == [i \in 1..Len(s) |-> s[Len(s) + 1 - i]]

\* dict.keys()
Keys(d) == {d[i].name : i \in 1..Len(d)}

\* d[name]
Lookup(d, name) == d[CHOOSE i \in 1..Len(d) : d[i].name = name]

\* d[m.name] = m: an existing key keeps its position, a new key goes last.
DictSet(d, m) ==
  IF m.name \in Keys(d)
    THEN [i \in 1..Len(d) |-> IF d[i].name = m.name THEN m ELSE d[i]]
    ELSE Append(d, m)

\* str.lower() on the tokens in use.
Lower(tok) == IF tok = "X" THEN "x" ELSE IF tok = "Y" THEN "y" ELSE tok

\* str.strip(): leading and trailing whitespace removed.
Whitespace == {"\n", "\n\n", " "}
Strip(t) ==
  LET keep == {i \in 1..Len(t) : t[i] \notin Whitespace}
  IN IF keep = {} THEN <<>> ELSE SubSeq(t, Min(keep), Max(keep))

\* ------------------------------------------------------------- construction
\* __init__: the entries of a loaded dict whose name is not disabled.
RegisterFromDir(disabled, loaded) ==
  SelectSeq(loaded, LAMBDA m : m.name \notin disabled)

\* ---------------------------------------------------------- load_microagents
Registries(k, r) == [knowledge |-> k, repo |-> r]

\* The loop body with the disable-list check left out.
RegisterOneUnfiltered(disabled, regs, m) ==
  IF m.kind = "knowledge"
    THEN Registries(DictSet(regs.knowledge, m), regs.repo)
    ELSE IF m.kind = "repo"
      THEN Registries(regs.knowledge, DictSet(regs.repo, m))
      ELSE regs

\* The loop body with every microagent put in the knowledge registry.
RegisterOneUnpartitioned(disabled, regs, m) ==
  IF m.name \in disabled
    THEN regs
    ELSE Registries(DictSet(regs.knowledge, m), regs.repo)

\* The loop body with a name that is already registered kept as it is.
RegisterOneKeepFirst(disabled, regs, m) ==
  IF m.name \in disabled
    THEN regs
    ELSE IF m.kind = "knowledge"
      THEN IF m.name \in Keys(regs.knowledge)
             THEN regs
             ELSE Registries(Append(regs.knowledge, m), regs.repo)
      ELSE IF m.kind = "repo"
        THEN Registries(regs.knowledge, DictSet(regs.repo, m))
        ELSE regs

\* One iteration of the loop of load_microagents.
RegisterOne(disabled, regs, m) ==
  IF m.name \in disabled
    THEN regs
    ELSE IF m.kind = "knowledge"
      THEN Registries(DictSet(regs.knowledge, m), regs.repo)
      ELSE IF m.kind = "repo"
        THEN Registries(regs.knowledge, DictSet(regs.repo, m))
        ELSE regs

RECURSIVE LoadLoop(_, _, _, _)
LoadLoop(disabled, regs, list, i) ==
  IF i > Len(list)
    THEN regs
    ELSE LoadLoop(disabled, RegisterOne(disabled, regs, list[i]), list, i + 1)


\* ----------------------------------------------------------- enhance_message
\* The loop over reversed(message.content): the text of the last text block,
\* '' when there is none.
LastTextContent(content) ==
  LET texts == {i \in 1..Len(content) : isTextContent(content[i])}
  IN IF texts = {} THEN <<>> ELSE content[Max(texts)].text

\* KnowledgeMicroAgent.match_trigger(message): the first trigger of the agent
\* that occurs in the lowered message, "" (None) when none does.
match_trigger(microagent, message) ==
  LET hits == {i \in 1..Len(microagent.triggers) :
                 \E j \in 1..Len(message) :
                   Lower(message[j]) = Lower(microagent.triggers[i])}
  IN IF hits = {} THEN "" ELSE microagent.triggers[Min(hits)]

\* The loop stopped at the first microagent that matches.
TriggeredAgentsFirstOnly(knowledge, message_content) ==
  LET hit == SelectSeq(knowledge, LAMBDA m : match_trigger(m, message_content) # "")
  IN IF hit = <<>>
       THEN <<>>
       ELSE <<[agent |-> hit[1],
               trigger_word |-> match_trigger(hit[1], message_content)]>>

\* The loop over self.knowledge_microagents.items(): one entry per microagent
\* whose match_trigger is truthy, in the dict's order.
TriggeredAgents(knowledge, message_content) ==
  LET hit == SelectSeq(knowledge, LAMBDA m : match_trigger(m, message_content) # "")
  IN [i \in 1..Len(hit) |->
        [agent |-> hit[i], trigger_word |-> match_trigger(hit[i], message_content)]]

\* Template.render of the microagent-info template: one section per entry.
RECURSIVE RenderMicroagentInfo(_, _)
RenderMicroagentInfo(template, triggered_agents) ==
  IF template = "blank" \/ triggered_agents = <<>>
    THEN <<"\n">>
    ELSE <<"\n", "<extra_info>", triggered_agents[1].trigger_word>>
           \o triggered_agents[1].agent.content
           \o <<"</extra_info>">>
           \o RenderMicroagentInfo(template, Tail(triggered_agents))

build_microagent_info(template, triggered_agents) ==
  Strip(RenderMicroagentInfo(template, triggered_agents))

\* list.insert(0, block) done as list.append(block).
InsertAtEnd(content, block) == Append(content, block)

\* list.insert(0, block)
InsertAtStart(content, block) == <<block>> \o content

\* The insert done whether or not the rendered text is empty.
InsertIfTextUnguarded(content, text) == InsertAtStart(content, TextContent(text))

\* if text: content.insert(0, TextContent(text=text))
InsertIfText(content, text) ==
  IF text # <<>> THEN InsertAtStart(content, TextContent(text)) ELSE content

\* ------------------------------------------- add_examples_to_initial_message
get_example_user_message(template) ==
  Strip(IF template = "blank" THEN <<"\n">> ELSE <<"\n", "EXAMPLE", "\n">>)

\* ----------------------------------------------- add_info_to_initial_message
\* The loop over self.repo_microagents.values().
RECURSIVE RepoInstructions(_, _)
RepoInstructions(acc, repo) ==
  IF repo = <<>>
    THEN acc
    ELSE RepoInstructions(
           (IF acc # <<>> THEN acc \o <<"\n\n">> ELSE acc) \o repo[1].content,
           Tail(repo))

RECURSIVE RenderHosts(_)
RenderHosts(hosts) ==
  IF hosts = <<>>
    THEN <<>>
    ELSE <<hosts[1].host, ToString(hosts[1].port)>> \o RenderHosts(Tail(hosts))

\* Template.render of the additional-info template: a section for each of the
\* three variables that is set.
RenderAdditionalInfo(template, repository_instructions, repo_info, rt_info) ==
  IF template = "blank"
    THEN <<"\n">>
    ELSE (IF repo_info.set
            THEN <<"<REPOSITORY_INFO>", repo_info.repo_name, repo_info.repo_directory, "\n">>
            ELSE <<>>)
         \o (IF repository_instructions # <<>>
               THEN <<"<REPOSITORY_INSTRUCTIONS>">> \o repository_instructions \o <<"\n">>
               ELSE <<>>)
         \o (IF rt_info.available_hosts # <<>>
               THEN <<"<RUNTIME_INFORMATION>">> \o RenderHosts(rt_info.available_hosts) \o <<"\n">>
               ELSE <<>>)

\* The assert of add_info_to_initial_message left out.
AtMostOneRepoMicroagentUnchecked(repo) == TRUE

\* assert len(self.repo_microagents) <= 1
AtMostOneRepoMicroagent(repo) == Len(repo) <= 1

\* --------------------------------------------------- add_turns_left_reminder
hasText(m) == \E i \in 1..Len(m.content) : isTextContent(m.content[i])

\* The scan with the single most recent message skipped.
LatestUserMessageBeforeLast(msgs) ==
  LET users == {i \in 1..(Len(msgs) - 1) : msgs[i].role = "user" /\ hasText(msgs[i])}
  IN IF users = {} THEN 0 ELSE Max(users)

\* next(islice(<user messages with a text block, latest first>, 1), None):
\* the index of the message found, 0 for None.
LatestUserMessage(msgs) ==
  LET users == {i \in 1..Len(msgs) : msgs[i].role = "user" /\ hasText(msgs[i])}
  IN IF users = {} THEN 0 ELSE Max(users)

ReminderText(state) ==
  <<"\n\n", "ENVIRONMENT REMINDER", ToString(state.max_iterations - state.iteration),
    "turns left">>

\* list.append(block) done as list.insert(0, block).
AppendAtStart(content, block) == <<block>> \o content

\* list.append(block)
AppendBlock(content, block) == Append(content, block)


\* ------------------------------------------------------------------- inputs
\* runtime.web_hosts of the runtimes tried.
WebHosts == {<<>>, <<[host |-> "http://localhost", port |-> 8080]>>}
RepoNames == {"owner/repo"}
RepoDirectories == {"/workspace/repo"}

NoRepositoryInfo == [set |-> FALSE, repo_name |-> "", repo_directory |-> ""]
RepositoryInfo(name, dir) == [set |-> TRUE, repo_name |-> name, repo_directory |-> dir]
RuntimeInfo(hosts) == [available_hosts |-> hosts]

NoState == [max_iterations |-> 0, iteration |-> 0]

\* The record of a call: name, arguments, outcome and the state it started in.
Call(op, idx, list, state, raised, triggered) ==
  [op |-> op, idx |-> idx, microagents |-> list, state |-> state,
   raised |-> raised, triggered_agents |-> triggered,
   pre_messages |-> messages,
   pre_knowledge |-> knowledge_microagents,
   pre_repo |-> repo_microagents]

\* --------------------------------------------------------------------- Init
\* PromptManager.__init__ for a prompt directory, a microagent directory and
\* a disable-list, and the conversation's messages.
Init ==
  \E dir \in MicroagentDirs, disabled \in DisableLists,
     prompts \in PromptDirs, msgs \in MessageLists :
    /\ disabled_microagents = disabled
    /\ templates = prompts
    /\ repository_info = NoRepositoryInfo
    /\ runtime_info = RuntimeInfo(<<>>)
    /\ knowledge_microagents =
         IF dir.given THEN RegisterFromDir(disabled, dir.knowledge) ELSE <<>>
    /\ repo_microagents =
         IF dir.given THEN RegisterFromDir(disabled, dir.repo) ELSE <<>>
    /\ messages = msgs
    /\ original = msgs
    /\ rendered = [i \in 1..Len(msgs) |-> <<>>]
    /\ steps = 0
    /\ last = [op |-> "__init__", idx |-> 0, microagents |-> <<>>, state |-> NoState,
               raised |-> FALSE, triggered_agents |-> <<>>,
               pre_messages |-> msgs,
               pre_knowledge |-> <<>>,
               pre_repo |-> <<>>]

\* ------------------------------------------------------------------ actions
load_microagents(microagents) ==
  /\ steps < MaxSteps
  /\ LET regs == LoadLoop(disabled_microagents,
                          Registries(knowledge_microagents, repo_microagents),
                          microagents, 1)
     IN /\ knowledge_microagents' = regs.knowledge
        /\ repo_microagents' = regs.repo
  /\ last' = Call("load_microagents", 0, microagents, NoState, FALSE, <<>>)
  /\ steps' = steps + 1
  /\ UNCHANGED <<disabled_microagents, templates, repository_info, runtime_info,
                 messages, original, rendered>>

set_runtime_info(web_hosts) ==
  /\ steps < MaxSteps
  /\ runtime_info' = [runtime_info EXCEPT !.available_hosts = web_hosts]
  /\ last' = Call("set_runtime_info", 0, <<>>, NoState, FALSE, <<>>)
  /\ steps' = steps + 1
  /\ UNCHANGED <<disabled_microagents, templates, knowledge_microagents,
                 repo_microagents, repository_info, messages, original, rendered>>

set_repository_info(repo_name, repo_directory) ==
  /\ steps < MaxSteps
  /\ repository_info' = RepositoryInfo(repo_name, repo_directory)
  /\ last' = Call("set_repository_info", 0, <<>>, NoState, FALSE, <<>>)
  /\ steps' = steps + 1
  /\ UNCHANGED <<disabled_microagents, templates, knowledge_microagents,
                 repo_microagents, runtime_info, messages, original, rendered>>

enhance_message(i) ==
  /\ steps < MaxSteps
  /\ LET content == messages[i].content
         message_content == LastTextContent(content)
         triggered_agents ==
           IF content = <<>> \/ message_content = <<>>
             THEN <<>>
             ELSE TriggeredAgents(knowledge_microagents, message_content)
         formatted_text ==
           build_microagent_info(templates.microagent_info, triggered_agents)
     IN IF triggered_agents # <<>>
          THEN /\ messages' = [messages EXCEPT ![i].content =
                                 InsertAtStart(content, TextContent(formatted_text))]
               /\ rendered' = [rendered EXCEPT ![i] =
                                 Append(@, [op |-> "enhance_message",
                                            text |-> formatted_text])]
               /\ last' = Call("enhance_message", i, <<>>, NoState, FALSE,
                               triggered_agents)
          ELSE /\ UNCHANGED <<messages, rendered>>
               /\ last' = Call("enhance_message", i, <<>>, NoState, FALSE, <<>>)
  /\ steps' = steps + 1
  /\ UNCHANGED <<disabled_microagents, templates, knowledge_microagents,
                 repo_microagents, repository_info, runtime_info, original>>

add_examples_to_initial_message(i) ==
  /\ steps < MaxSteps
  /\ LET example_message == get_example_user_message(templates.user_prompt)
     IN /\ messages' = [messages EXCEPT ![i].content =
                          InsertIfText(@, example_message)]
        /\ rendered' = [rendered EXCEPT ![i] =
                          Append(@, [op |-> "add_examples_to_initial_message",
                                     text |-> example_message])]
  /\ last' = Call("add_examples_to_initial_message", i, <<>>, NoState, FALSE, <<>>)
  /\ steps' = steps + 1
  /\ UNCHANGED <<disabled_microagents, templates, knowledge_microagents,
                 repo_microagents, repository_info, runtime_info, original>>

add_info_to_initial_message(i) ==
  /\ steps < MaxSteps
  /\ IF ~AtMostOneRepoMicroagent(repo_microagents)
       THEN \* AssertionError
            /\ UNCHANGED <<messages, rendered>>
            /\ last' = Call("add_info_to_initial_message", i, <<>>, NoState, TRUE, <<>>)
       ELSE LET repo_instructions == RepoInstructions(<<>>, repo_microagents)
                additional_info ==
                  Strip(RenderAdditionalInfo(templates.additional_info,
                          repo_instructions, repository_info, runtime_info))
            IN /\ messages' = [messages EXCEPT ![i].content =
                                 InsertIfText(@, additional_info)]
               /\ rendered' = [rendered EXCEPT ![i] =
                                 Append(@, [op |-> "add_info_to_initial_message",
                                            text |-> additional_info])]
               /\ last' = Call("add_info_to_initial_message", i, <<>>, NoState,
                               FALSE, <<>>)
  /\ steps' = steps + 1
  /\ UNCHANGED <<disabled_microagents, templates, knowledge_microagents,
                 repo_microagents, repository_info, runtime_info, original>>

add_turns_left_reminder(state) ==
  /\ steps < MaxSteps
  /\ LET latest_user_message == LatestUserMessage(messages)
     IN /\ messages' =
             IF latest_user_message # 0
               THEN [messages EXCEPT ![latest_user_message].content =
                       AppendBlock(@, TextContent(ReminderText(state)))]
               ELSE messages
        /\ last' = Call("add_turns_left_reminder", latest_user_message, <<>>,
                        state, FALSE, <<>>)
  /\ steps' = steps + 1
  /\ UNCHANGED <<disabled_microagents, templates, knowledge_microagents,
                 repo_microagents, repository_info, runtime_info, original, rendered>>

Next ==
  \/ \E microagents \in MicroagentLists : load_microagents(microagents)
  \/ \E web_hosts \in WebHosts : set_runtime_info(web_hosts)
  \/ \E n \in RepoNames, d \in RepoDirectories : set_repository_info(n, d)
  \/ \E i \in 1..Len(messages) : enhance_message(i)
  \/ \E i \in 1..Len(messages) : add_examples_to_initial_message(i)
  \/ \E i \in 1..Len(messages) : add_info_to_initial_message(i)
  \/ \E state \in States : add_turns_left_reminder(state)

Spec == Init /\ [][Next]_vars


\* ------------------------------------------------------------------- claims
Range(q) == {q[i] : i \in 1..Len(q)}
UserTextIndices(msgs) ==
  {i \in 1..Len(msgs) :
     msgs[i].role = "user" /\ \E j \in 1..Len(msgs[i].content) : msgs[i].content[j].type = "text"}
Changed == {i \in 1..Len(messages) : messages[i] # last.pre_messages[i]}
IsReminder(block, state) ==
  /\ block.type = "text"
  /\ ToString(state.max_iterations - state.iteration) \in Range(block.text)
  /\ "turns left" \in Range(block.text)

\* C1 as stated: add_turns_left_reminder skips the single most recent message
\* and appends the reminder to the latest user message with a text block among
\* the earlier ones, never to the most recent message.
C1_ReminderSkipsMostRecent ==
  last.op = "add_turns_left_reminder" =>
    LET pre == last.pre_messages
        earlier == UserTextIndices(pre) \ {Len(pre)}
    IN /\ Len(pre) \notin Changed
       /\ earlier # {} => Changed = {Max(earlier)}

\* C1, amended: add_turns_left_reminder appends the reminder to the most
\* recent user message that has a text block, the single most recent message
\* included; no message is skipped.
C1_ReminderOnLatestUserMessage ==
  last.op = "add_turns_left_reminder" =>
    LET pre == last.pre_messages
        users == UserTextIndices(pre)
    IN /\ Len(messages) = Len(pre)
       /\ users # {} =>
            /\ Changed = {Max(users)}
            /\ IsReminder(messages[Max(users)].content[Len(messages[Max(users)].content)],
                          last.state)
       /\ users = {} => Changed = {}

\* The reminder landed on the most recent message of [user, assistant, user]
\* and the first user message was left alone.
C1_Witness ==
  /\ last.op = "add_turns_left_reminder"
  /\ Len(messages) = 3
  /\ UserTextIndices(last.pre_messages) = {1, 3}
  /\ Changed = {3}
  /\ last.state = [max_iterations |-> 10, iteration |-> 3]
  /\ "7" \in Range(messages[3].content[Len(messages[3].content)].text)

\* C2: add_turns_left_reminder changes at most one message: with a target,
\* that message gets exactly one text block carrying max_iterations - iteration
\* at the end of its content, its earlier blocks and every other message stay
\* as they were; without a user message with a text block nothing changes.
C2_ReminderChangesOneMessage ==
  last.op = "add_turns_left_reminder" =>
    LET pre == last.pre_messages
    IN /\ Len(messages) = Len(pre)
       /\ Cardinality(Changed) <= 1
       /\ \A t \in Changed :
            /\ messages[t].role = pre[t].role
            /\ Len(messages[t].content) = Len(pre[t].content) + 1
            /\ SubSeq(messages[t].content, 1, Len(pre[t].content)) = pre[t].content
            /\ IsReminder(messages[t].content[Len(messages[t].content)], last.state)
       /\ (UserTextIndices(pre) = {}) <=> (messages = pre)

\* A reminder was appended behind two existing blocks of one message.
C2_Witness ==
  /\ last.op = "add_turns_left_reminder"
  /\ \E t \in Changed :
       /\ Len(last.pre_messages[t].content) >= 2
       /\ Len(messages[t].content) = Len(last.pre_messages[t].content) + 1
  /\ last.state.max_iterations = last.state.iteration

\* The text of the last text block of a content list, <<>> without one.
LastTextOf(content) ==
  IF \E j \in 1..Len(content) : content[j].type = "text"
    THEN content[Max({j \in 1..Len(content) : content[j].type = "text"})].text
    ELSE <<>>
Matches(k, text) == match_trigger(k, text) # ""

\* C3: enhance_message inserts exactly one text block at index 0, the earlier
\* blocks following in their order, when a registered knowledge microagent
\* matches the last text block; otherwise (no match, empty content, no text
\* block) the content is unchanged. No other message changes.
C3_EnhanceInsertsOneBlockOrNothing ==
  last.op = "enhance_message" =>
    LET pre == last.pre_messages
        i == last.idx
        matched == \E k \in Range(knowledge_microagents) :
                     Matches(k, LastTextOf(pre[i].content))
    IN /\ Len(messages) = Len(pre)
       /\ \A j \in 1..Len(pre) : j # i => messages[j] = pre[j]
       /\ messages[i].role = pre[i].role
       /\ IF matched
            THEN /\ Len(messages[i].content) = Len(pre[i].content) + 1
                 /\ messages[i].content[1].type = "text"
                 /\ Tail(messages[i].content) = pre[i].content
            ELSE messages[i].content = pre[i].content

\* enhance_message put a block in front of a text block and an image block.
C3_Witness ==
  /\ last.op = "enhance_message"
  /\ Len(last.pre_messages[last.idx].content) = 2
  /\ Len(messages[last.idx].content) = 3
  /\ messages[last.idx].content[3].type = "image"

\* C4 as stated: whatever calls were made, the last text block of a user
\* message is still the user's own text.
C4_LastTextIsUserText ==
  \A i \in 1..Len(messages) :
    (original[i].role = "user" /\ LastTextOf(original[i].content) # <<>>) =>
      LastTextOf(messages[i].content) = LastTextOf(original[i].content)

\* C5: no disabled name is a key of either registry.
C5_DisabledNeverRegistered ==
  \A n \in disabled_microagents :
    n \notin Keys(knowledge_microagents) /\ n \notin Keys(repo_microagents)

\* load_microagents was handed a knowledge and a repo microagent that are
\* both disabled.
C5_Witness ==
  /\ last.op = "load_microagents"
  /\ \E m \in Range(last.microagents) :
       m.kind = "knowledge" /\ m.name \in disabled_microagents
  /\ \E m \in Range(last.microagents) :
       m.kind = "repo" /\ m.name \in disabled_microagents

\* C6: add_info_to_initial_message raises when more than one repo microagent
\* is registered and then leaves the messages unchanged; with at most one and
\* no repository or runtime info set it does not raise.
C6_AssertsAtMostOneRepoMicroagent ==
  last.op = "add_info_to_initial_message" =>
    /\ Cardinality(Keys(repo_microagents)) > 1 =>
         last.raised /\ messages = last.pre_messages
    /\ (Cardinality(Keys(repo_microagents)) <= 1
          /\ ~repository_info.set /\ runtime_info.available_hosts = <<>>) =>
         ~last.raised

\* add_info_to_initial_message raised with two repo microagents registered.
C6_Witness ==
  /\ last.op = "add_info_to_initial_message"
  /\ last.raised
  /\ Keys(repo_microagents) = {"a", "s"}

\* C7: the list handed to the microagent-info rendering holds one
\* (agent, trigger word) pair for each registered knowledge microagent that
\* matches the last text block, none for the others, in registry order.
C7_EveryMatchingAgentListed ==
  last.op = "enhance_message" =>
    LET text == LastTextOf(last.pre_messages[last.idx].content)
        trig == last.triggered_agents
        K == knowledge_microagents
        pos(a) == CHOOSE p \in 1..Len(K) : K[p] = a
    IN /\ \A p \in 1..Len(K) :
            Cardinality({j \in 1..Len(trig) : trig[j].agent = K[p]})
              = IF Matches(K[p], text) THEN 1 ELSE 0
       /\ \A j \in 1..Len(trig) :
            /\ trig[j].agent \in Range(K)
            /\ trig[j].trigger_word = match_trigger(trig[j].agent, text)
       /\ \A j1, j2 \in 1..Len(trig) :
            j1 < j2 => pos(trig[j1].agent) < pos(trig[j2].agent)

\* Both microagents of a registry that holds "b" before "a" matched, and
\* were listed in that order.
C7_Witness ==
  /\ last.op = "enhance_message"
  /\ Len(last.triggered_agents) = 2
  /\ last.triggered_agents[1].agent = K2
  /\ last.triggered_agents[2].agent = K1
  /\ last.triggered_agents[1].trigger_word = "x"

\* C8: load_microagents registers each microagent that is not disabled by its
\* kind: a knowledge microagent only in the knowledge registry, a repo
\* microagent only in the repo registry; one of neither kind is dropped, and
\* a call that holds nothing to register leaves both registries as they were.
C8_LoadPartitionsByKind ==
  last.op = "load_microagents" =>
    LET list == Range(last.microagents)
        enabled == {m \in list : m.name \notin disabled_microagents}
        newK == {m \in enabled : m.kind = "knowledge"}
        newR == {m \in enabled : m.kind = "repo"}
    IN /\ \A m \in newK :
            m.name \in Keys(knowledge_microagents) /\ m \notin Range(repo_microagents)
       /\ \A m \in newR :
            m.name \in Keys(repo_microagents) /\ m \notin Range(knowledge_microagents)
       /\ Range(knowledge_microagents) \subseteq Range(last.pre_knowledge) \cup newK
       /\ Range(repo_microagents) \subseteq Range(last.pre_repo) \cup newR
       /\ newK = {} => knowledge_microagents = last.pre_knowledge
       /\ newR = {} => repo_microagents = last.pre_repo

\* A list of a task, a knowledge and a repo microagent was loaded, and the
\* latter two were registered.
C8_Witness ==
  /\ last.op = "load_microagents"
  /\ last.microagents = <<T1, K2, R2>>
  /\ K2 \in Range(knowledge_microagents) /\ K2 \notin Range(last.pre_knowledge)
  /\ R2 \in Range(repo_microagents) /\ R2 \notin Range(last.pre_repo)

\* C9: after load_microagents, the name of each knowledge microagent of the
\* list that is not disabled looks up that microagent (the last one of that
\* name in the list), and no call removes a key from a registry.
C9_LookupAfterLoad ==
  /\ Keys(last.pre_knowledge) \subseteq Keys(knowledge_microagents)
  /\ Keys(last.pre_repo) \subseteq Keys(repo_microagents)
  /\ last.op = "load_microagents" =>
       \A p \in 1..Len(last.microagents) :
         LET m == last.microagents[p]
         IN (/\ m.kind = "knowledge"
             /\ m.name \notin disabled_microagents
             /\ \A q \in (p + 1)..Len(last.microagents) :
                  ~(last.microagents[q].kind = "knowledge"
                      /\ last.microagents[q].name = m.name))
            => (m.name \in Keys(knowledge_microagents)
                  /\ Lookup(knowledge_microagents, m.name) = m)

\* A knowledge microagent was loaded under a name that was registered with
\* another microagent, and replaced it.
C9_Witness ==
  /\ last.op = "load_microagents"
  /\ K1 \in Range(last.pre_knowledge)
  /\ K3 \in Range(last.microagents)
  /\ Lookup(knowledge_microagents, "a") = K3
  /\ Len(knowledge_microagents) = Len(last.pre_knowledge)

\* The blocks of the calls recorded for a message, in call order: a call adds
\* a block when its text is not empty or its operation is one of `always`.
RECURSIVE BlocksOf(_, _)
BlocksOf(calls, always) ==
  IF calls = <<>>
    THEN <<>>
    ELSE (IF calls[1].op \in always \/ calls[1].text # <<>>
            THEN <<[type |-> "text", text |-> calls[1].text]>>
            ELSE <<>>)
           \o BlocksOf(Tail(calls), always)
FrontIs(content, blocks, orig) ==
  /\ Len(content) >= Len(blocks) + Len(orig)
  /\ SubSeq(content, 1, Len(blocks)) = Reverse(blocks)
  /\ SubSeq(content, Len(blocks) + 1, Len(blocks) + Len(orig)) = orig

\* C10 as stated: the blocks of the prepending calls stand at the front of
\* the content, the last call's first, followed by the original blocks in
\* their order; a call whose rendered text is empty adds no block.
C10_PrependedInReverseCallOrder ==
  \A i \in 1..Len(messages) :
    FrontIs(messages[i].content,
            BlocksOf(rendered[i], {}),
            original[i].content)

\* C10, amended: the same, except that a call whose rendered text is empty
\* adds no block only for add_examples_to_initial_message and
\* add_info_to_initial_message; enhance_message with a match adds its block
\* also when the rendered text is empty.
C10_PrependedInReverseCallOrderAmended ==
  \A i \in 1..Len(messages) :
    FrontIs(messages[i].content,
            BlocksOf(rendered[i], {"enhance_message"}),
            original[i].content)

\* The three prepending calls were made on one message, each adding a block,
\* and a call with an empty rendering was made on another state of it.
C10_Witness ==
  \E i \in 1..Len(messages) :
    /\ Len(rendered[i]) = 3
    /\ {rendered[i][j].op : j \in 1..3} =
         {"enhance_message", "add_examples_to_initial_message",
          "add_info_to_initial_message"}
    /\ rendered[i][3].op = "add_examples_to_initial_message"
    /\ Len(messages[i].content) = Len(original[i].content) + 3
    /\ messages[i].content[1].text = <<"EXAMPLE">>

====
